---- MODULE Spec2Model ----
(***************************************************************************)
(* Model of team_page.process.UpdateTeamPage: the roster build             *)
(* (create_databag, sort_committees, download_member_image, download) and  *)
(* the publish step (get_repo, save_json, apply_changes, pull_request,     *)
(* run_update).                                                            *)
(*                                                                         *)
(* Text is modelled as sequences of one-character strings so that          *)
(* str.casefold, str.replace and the substring test `in` are computed,     *)
(* not assumed.  Committee names and URL ids are compared only for         *)
(* equality and emptiness and stay TLA+ strings.                           *)
(*                                                                         *)
(* Three specifications share the module:                                  *)
(*   SpecImg  download_member_image applied to one member and one image    *)
(*            directory;                                                   *)
(*   SpecBag  create_databag applied to one sheet;                         *)
(*   Spec     run_update, executed up to MaxRuns times against the same    *)
(*            remote repository.                                           *)
(***************************************************************************)
EXTENDS Integers, Sequences, FiniteSets, TLC

VARIABLES
    pc,              \* position: of the run (Spec) or of the applied function
    run,             \* number of the current run_update execution
    records,         \* the sheet rows, after rename(columns=...).fillna("")
    member,          \* SpecImg: the TeamMember handed to download_member_image
    image_dir,       \* files of the image directory of the working tree
    staged,          \* files added to the index by download (git add)
    result,          \* SpecImg: outcome of download_member_image;
                     \* SpecBag: outcome of create_databag
    data_bag,        \* new_data_bag of run_update (None before it is built)
    json,            \* content of databags/team.json in the working tree
    heads,           \* local branches of the clone: name -> commit
    origin,          \* remote-tracking refs of the clone: name -> commit
    remote,          \* the website repository on the host
    commits,         \* commit -> tree; a commit is its index in this sequence
    changes_to_push, \* self.changes_to_push
    calls,           \* pull-request API requests issued in the current run
    obs,             \* observations of the current run (commit, push, ...)
    hist             \* per finished run: what it serialized and did

vars == <<pc, run, records, member, image_dir, staged, result, data_bag, json,
          heads, origin, remote, commits, changes_to_push, calls, obs, hist>>

None == "None"
\* None where a file name (a sequence of characters) is expected
NoFile == <<"None">>
\* databags/team.json does not exist
NoJson == <<>>

----------------------------------------------------------------------------
(* Bounds *)

MaxRows == 2
MaxRuns == 2

----------------------------------------------------------------------------
(* Text *)

\* str.casefold on the characters that occur in the model
Lower(c) ==
    CASE c = "A" -> "a" [] c = "B" -> "b" [] c = "G" -> "g" [] c = "L" -> "l"
      [] c = "N" -> "n" [] c = "P" -> "p" [] c = "Y" -> "y" [] c = "E" -> "e"
      [] c = "S" -> "s"
      [] OTHER -> c

casefold(s) == [i \in 1..Len(s) |-> Lower(s[i])]

\* name.replace(" ", "_")
replace_spaces(s) == [i \in 1..Len(s) |-> IF s[i] = " " THEN "_" ELSE s[i]]

\* Python's `sub in s` on strings
Contains(sub, s) ==
    \E k \in 0..(Len(s) - Len(sub)) : SubSeq(s, k + 1, k + Len(sub)) = sub

normalized_member_name(name) == casefold(replace_spaces(name))

yes == <<"y", "e", "s">>
Yes == <<"Y", "e", "s">>
no == <<"n", "o">>
empty == <<>>

NameAl == <<"A", "l">>
NameAlB == <<"A", "l", " ", "B">>

Dot == <<".">>
FileAlPng == <<"a", "l", ".", "p", "n", "g">>
FileAlUpper == <<"A", "l", ".", "P", "N", "G">>
FileAlBPng == <<"a", "l", "_", "b", ".", "p", "n", "g">>
FilePJpg == <<"p", ".", "j", "p", "g">>
FileLogo == <<"l", "o", "g", "o">>

----------------------------------------------------------------------------
(* Image hosts.  A URL is known by an id; Urls gives what pydantic's       *)
(* AnyHttpUrl exposes of it (host, last path segment, the `id` query       *)
(* parameter) and what its host answers.                                   *)

UrlOk == "https://example.com/p.jpg"
UrlBroken == "https://example.com/q"
UrlHtml == "https://example.com/page"
UrlGone == "https://example.com/gone"
UrlDrive == "https://drive.google.com/open?id=1"
UrlDriveNoId == "https://drive.google.com/open"
UrlBad == "not a url"

Urls ==
    [u \in {UrlOk, UrlBroken, UrlHtml, UrlGone, UrlDrive, UrlDriveNoId} |->
        CASE u = UrlOk ->
               [host |-> "example.com", last |-> FilePJpg, id |-> FALSE,
                head |-> "ok", ctype |-> "image", ext |-> <<"j", "p", "e", "g">>,
                get |-> "ok", body |-> "ok"]
          [] u = UrlBroken ->
               [host |-> "example.com", last |-> <<"q">>, id |-> FALSE,
                head |-> "ok", ctype |-> "image", ext |-> <<"p", "n", "g">>,
                get |-> "ok", body |-> "broken"]
          [] u = UrlHtml ->
               [host |-> "example.com", last |-> <<"p", "a", "g", "e">>, id |-> FALSE,
                head |-> "ok", ctype |-> "text", ext |-> <<"h", "t", "m", "l">>,
                get |-> "ok", body |-> "ok"]
          [] u = UrlGone ->
               [host |-> "example.com", last |-> <<"g", "o", "n", "e">>, id |-> FALSE,
                head |-> "fail", ctype |-> "text", ext |-> <<"h", "t", "m", "l">>,
                get |-> "fail", body |-> "ok"]
          [] u = UrlDrive ->
               [host |-> "drive.google.com", last |-> <<"o", "p", "e", "n">>, id |-> TRUE,
                head |-> "ok", ctype |-> "image", ext |-> <<"p", "n", "g">>,
                get |-> "ok", body |-> "ok"]
          [] u = UrlDriveNoId ->
               [host |-> "drive.google.com", last |-> <<"o", "p", "e", "n">>, id |-> FALSE,
                head |-> "ok", ctype |-> "image", ext |-> <<"p", "n", "g">>,
                get |-> "ok", body |-> "ok"]]

\* TeamMember.validate_url: a falsy or malformed value becomes None
validate_url(value) == IF value \in DOMAIN Urls THEN value ELSE None

\* validate_content_type: raises ValueError unless the type starts "image/"
validate_content_type(u) == IF Urls[u].ctype = "image" THEN Urls[u].ext ELSE "ValueError"

(* download: the outcome is a record                                       *)
(*   ret      the returned file name, or NoFile (Python's None)            *)
(*   raised   an exception left the function                               *)
(*   dir      the image directory afterwards                               *)
(*   staged   the index afterwards                                         *)
(*   net      a network request was made                                   *)
Outcome(ret, raised, dir, stg, net) ==
    [ret |-> ret, raised |-> raised, dir |-> dir, staged |-> stg, net |-> net]

\* with open(member_image, "wb"): iter_content may raise RequestException
\* after the file was created; it is then neither removed nor staged
WriteImage(u, file, dir, stg) ==
    IF Urls[u].body = "ok"
    THEN Outcome(file, FALSE, dir \cup {file}, stg \cup {file}, TRUE)
    ELSE Outcome(NoFile, FALSE, dir \cup {file}, stg, TRUE)

download(u, normalized_name, dir, stg) ==
    IF Urls[u].host = "drive.google.com"
    THEN IF ~Urls[u].id
         THEN Outcome(NoFile, TRUE, dir, stg, FALSE)            \* KeyError
         ELSE IF Urls[u].get = "fail"
         THEN Outcome(NoFile, FALSE, dir, stg, TRUE)            \* RequestException
         ELSE IF validate_content_type(u) = "ValueError"
         THEN Outcome(NoFile, TRUE, dir, stg, TRUE)
         ELSE WriteImage(u, normalized_name \o Dot \o validate_content_type(u), dir, stg)
    ELSE IF Urls[u].head = "fail"
         THEN Outcome(NoFile, TRUE, dir, stg, TRUE)             \* ValueError
         ELSE IF validate_content_type(u) = "ValueError"
         THEN Outcome(NoFile, TRUE, dir, stg, TRUE)
         ELSE IF Urls[u].get = "fail"
         THEN Outcome(NoFile, FALSE, dir, stg, TRUE)            \* HTTPError, caught
         ELSE WriteImage(u, normalized_name \o Dot \o validate_content_type(u), dir, stg)

\* {x.name.casefold() for x in image_dir.rglob("*")} filtered by the key
image_in_place(normalized_name, dir) ==
    {x \in {casefold(f) : f \in dir} : Contains(normalized_name, x)}

\* (image_dir / url.path.split("/")[-1]).exists()
url_file_exists(u, dir) == Urls[u].last \in dir

(* download_member_image: the set of possible outcomes; image_in_place[0]  *)
(* is the first element of a list built from a set, any of its elements.   *)
download_member_image(name, image_url, dir, stg) ==
    IF image_url = None
    THEN {Outcome(NoFile, FALSE, dir, stg, FALSE)}
    ELSE IF url_file_exists(image_url, dir)
    THEN {Outcome(NoFile, FALSE, dir, stg, FALSE)}
    ELSE IF image_in_place(normalized_member_name(name), dir) # {}
    THEN {Outcome(x, FALSE, dir, stg, FALSE) :
             x \in image_in_place(normalized_member_name(name), dir)}
    ELSE {download(image_url, normalized_member_name(name), dir, stg)}

----------------------------------------------------------------------------
(* SpecImg: download_member_image on one member and one image directory    *)

Names == {empty, NameAl, NameAlB}
DirFiles == {FileAlPng, FileAlUpper, FileAlBPng, FilePJpg, FileLogo}

NoRepo == [main |-> 0, branch |-> 0, default |-> "main", pr |-> FALSE]

\* the publish step's variables where no run takes place
Idle ==
    /\ run = 0
    /\ data_bag = None
    /\ json = NoJson
    /\ heads = <<>>
    /\ origin = <<>>
    /\ remote = NoRepo
    /\ commits = <<>>
    /\ changes_to_push = FALSE
    /\ calls = <<>>
    /\ obs = <<>>
    /\ hist = <<>>

InitImg ==
    /\ pc = "img_start"
    /\ records = <<>>
    /\ member \in [name : Names \ {empty}, image_url : DOMAIN Urls \cup {None}]
    /\ image_dir \in SUBSET DirFiles
    /\ staged = {}
    /\ result = None
    /\ Idle

ResolveImage ==
    /\ pc = "img_start"
    /\ \E o \in download_member_image(member.name, member.image_url, image_dir, staged) :
          /\ result' = [o EXCEPT !.dir = image_dir]   \* keeps the directory as it was
          /\ image_dir' = o.dir
          /\ staged' = o.staged
    /\ pc' = "img_done"
    /\ UNCHANGED <<run, records, member, data_bag, json, heads, origin, remote,
                   commits, changes_to_push, calls, obs, hist>>

NextImg == ResolveImage

SpecImg == InitImg /\ [][NextImg]_vars

----------------------------------------------------------------------------
(* Roster build                                                            *)

sort_order == <<"Board", "Volunteers">>
team_images == "static/images/team"
default_image == "default.png"

Chair == <<"C", "h", "a", "i", "r">>

\* record.get(key, default)
Get(record, key, default) == IF key \in DOMAIN record THEN record[key] ELSE default

\* TeamMember(**record): the fields the model carries; `name` is required,
\* `committee` defaults to "other", image_url goes through validate_url
Validates(record) == "name" \in DOMAIN record

TeamMember(record, role) ==
    [name |-> record.name,
     role |-> role,
     committee |-> Get(record, "committee", "other"),
     image_name |-> empty,
     image_url |-> validate_url(Get(record, "image_url", None))]

\* the orders in which iterating a set of n distinct names can yield them
KeyOrders(S) ==
    {o \in [1..Cardinality(S) -> S] : \A i, j \in 1..Cardinality(S) : o[i] = o[j] => i = j}

\* {c.get("committee") for c in records if c.get("committee")}
committee_names(recs) ==
    {Get(recs[i], "committee", "") : i \in 1..Len(recs)} \ {""}

(* State of the row loop: the members dict (keys in insertion order, one   *)
(* list per key), the image directory, the index, and whether an exception *)
(* left the loop.                                                          *)
LoopInit(order, dir, stg) ==
    [keys |-> order, lists |-> [k \in {order[i] : i \in 1..Len(order)} |-> <<>>],
     dir |-> dir, staged |-> stg, raised |-> FALSE]

\* members[record.get("committee", "other")].append(member); KeyError -> skip
AppendMember(st, record, m) ==
    IF Get(record, "committee", "other") \in DOMAIN st.lists
    THEN [st EXCEPT !.lists[Get(record, "committee", "other")] = Append(@, m)]
    ELSE st

\* body of `for i, record in enumerate(records, 1)`: the possible states after it
ProcessRecord(st, record) ==
    IF st.raised THEN {st}
    ELSE IF "name" \notin DOMAIN record
    THEN {[st EXCEPT !.raised = TRUE]}                  \* record['name'] in the log line
    ELSE IF casefold(record.ignore) # yes
    THEN {st}
    ELSE IF ~Validates(record)
    THEN {st}                                           \* ValidationError -> skip
    ELSE LET role == IF casefold(record.chair) = yes THEN Chair ELSE empty
             m == TeamMember(record, role)
         IN {AppendMember([st EXCEPT !.dir = o.dir, !.staged = o.staged],
                          record,
                          [m EXCEPT !.image_url = None,
                                    !.image_name = IF o.raised THEN NoFile ELSE o.ret]) :
                o \in download_member_image(m.name, m.image_url, st.dir, st.staged)}

RECURSIVE Loop(_, _, _)
Loop(recs, k, st0) ==
    IF k = 0 THEN {st0}
    ELSE UNION {ProcessRecord(st, recs[k]) : st \in Loop(recs, k - 1, st0)}

\* CONFIG["sort_order"].index(name)
RECURSIVE IndexOf(_, _)
IndexOf(seq, x) == IF Head(seq) = x THEN 0 ELSE 1 + IndexOf(Tail(seq), x)

InSortOrder(name) == \E i \in 1..Len(sort_order) : sort_order[i] = name

\* key=lambda c: CONFIG["sort_order"].index(c.name)
SortKey(c) == IndexOf(sort_order, c.name)

\* sorted(..., key=...): stable insertion sort
RECURSIVE InsertByKey(_, _)
InsertByKey(seq, x) ==
    IF seq = <<>> THEN <<x>>
    ELSE IF SortKey(x) < SortKey(Head(seq)) THEN <<x>> \o seq
    ELSE <<Head(seq)>> \o InsertByKey(Tail(seq), x)

RECURSIVE Sorted(_)
Sorted(seq) ==
    IF seq = <<>> THEN <<>>
    ELSE InsertByKey(Sorted(SubSeq(seq, 1, Len(seq) - 1)), seq[Len(seq)])

sort_committees(committees) ==
    LET listed(c) == InSortOrder(c.name)
        unlisted(c) == ~InSortOrder(c.name)
    IN Sorted(SelectSeq(committees, listed)) \o SelectSeq(committees, unlisted)

\* [Committee(name=k, members=v) for k, v in members.items()]
Committees(st) ==
    [i \in 1..Len(st.keys) |->
        [name |-> st.keys[i], comment |-> "", members |-> st.lists[st.keys[i]]]]

TeamDataBag(types) ==
    [team_images |-> team_images, default_image |-> default_image, types |-> types]

(* create_databag: the possible outcomes for a sheet and an image          *)
(* directory.  `types` is the committee list of the returned document.     *)
create_databag(recs, dir, stg) ==
    {[raised |-> st.raised,
      bag |-> IF st.raised THEN None ELSE TeamDataBag(sort_committees(Committees(st))),
      dir |-> st.dir,
      staged |-> st.staged] :
        st \in UNION {Loop(recs, Len(recs), LoopInit(order, dir, stg)) :
                         order \in KeyOrders(committee_names(recs))}}

\* model_dump_json(indent=4): the fields in declaration order, None as null
JsonMember(m) ==
    <<"name", m.name, "role", m.role, "committee", m.committee,
      "image_name", IF m.image_name = NoFile THEN <<"null">> ELSE m.image_name,
      "github", "null", "linkedin", "null", "website", "null", "twitter", "null",
      "bluesky", "null", "mastodon", "null",
      "image_url", IF m.image_url = None THEN "null" ELSE m.image_url>>

JsonCommittee(c) ==
    <<"name", c.name, "comment", c.comment,
      "members", [i \in 1..Len(c.members) |-> JsonMember(c.members[i])]>>

model_dump_json(bag) ==
    <<"team_images", bag.team_images, "default_image", bag.default_image,
      "types", [i \in 1..Len(bag.types) |-> JsonCommittee(bag.types[i])]>>

----------------------------------------------------------------------------
(* SpecBag: create_databag on one sheet                                    *)

IncludeFlags == {yes, Yes, no}
ChairFlags == {yes, empty}
CommitteeCells == {"", "Board", "Volunteers", "Misc", "Other"}
ImageCells == {"", UrlBad, UrlOk, UrlBroken}

RowsFull ==
    [name : Names, ignore : IncludeFlags, chair : ChairFlags,
     committee : CommitteeCells, image_url : ImageCells]
RowsNoName ==
    [ignore : IncludeFlags, chair : ChairFlags,
     committee : CommitteeCells, image_url : ImageCells]
RowsNoCommittee ==
    [name : Names, ignore : IncludeFlags, chair : ChairFlags, image_url : ImageCells]

\* a sheet: every row has the columns of the data frame
SheetsOf(Rows) == UNION {[1..n -> Rows] : n \in 0..MaxRows}
Sheets == SheetsOf(RowsFull) \cup SheetsOf(RowsNoName) \cup SheetsOf(RowsNoCommittee)

InitBag ==
    /\ pc = "bag_start"
    /\ records \in Sheets
    /\ member = None
    /\ image_dir \in {{}, {FileAlPng}}
    /\ staged = {}
    /\ result = None
    /\ Idle

BuildDatabag ==
    /\ pc = "bag_start"
    /\ \E o \in create_databag(records, image_dir, staged) :
          /\ result' = [o EXCEPT !.dir = image_dir]   \* keeps the directory as it was
          /\ data_bag' = o.bag
          /\ image_dir' = o.dir
          /\ staged' = o.staged
    /\ pc' = "bag_done"
    /\ UNCHANGED <<run, records, member, json, heads, origin, remote,
                   commits, changes_to_push, calls, obs, hist>>

NextBag == BuildDatabag

SpecBag == InitBag /\ [][NextBag]_vars

----------------------------------------------------------------------------
(* Publish step: the clone, the remote repository and the pull-request API *)

BranchName == "team-page-update"

\* the tree of a commit: team.json and the image directory
Tree(j, images) == [json |-> j, images |-> images]

\* a faulty is_dirty that reports every working tree as changed
is_dirty_always(worktree, head_tree) == TRUE

\* repo.is_dirty(untracked_files=True): the working tree (index included)
\* differs from the checked-out commit
is_dirty(worktree, head_tree) == worktree # head_tree

\* a logger that ignores surplus positional arguments instead of formatting
LogNeverRaises(placeholders, nargs) == FALSE

\* a method of structlog's filtering bound logger: with positional arguments
\* the event is formatted `event % args`, which raises TypeError unless the
\* event has one placeholder per argument
LogRaises(placeholders, nargs) == nargs > 0 /\ placeholders # nargs

\* the commit a remote branch name stands for
RemoteRef(name) == IF name = "main" THEN remote.main ELSE remote.branch

NewObs ==
    [clean |-> FALSE, committed |-> FALSE, pushed |-> FALSE,
     found |-> FALSE, created |-> FALSE, new_branch |-> FALSE]

Row(n, c, ch, img) ==
    [name |-> n, ignore |-> yes, chair |-> ch, committee |-> c, image_url |-> img]

RunSheets ==
    { <<Row(NameAl, "Board", yes, UrlOk)>>,
      <<Row(NameAl, "Misc", empty, ""), Row(NameAlB, "Other", empty, "")>>,
      <<Row(NameAl, "Board", empty, UrlBroken)>> }

Init ==
    /\ pc = "start"
    /\ run = 1
    /\ records \in RunSheets
    /\ member = None
    /\ image_dir = {}
    /\ staged = {}
    /\ result = None
    /\ data_bag = None
    /\ json = NoJson
    /\ heads = <<>>
    /\ origin = <<>>
    /\ \E images \in {{}, {FileAlPng}} : commits = <<Tree(NoJson, images)>>
    /\ \E d \in {"main", BranchName} :
          remote = [main |-> 1, branch |-> IF d = "main" THEN 0 ELSE 1,
                    default |-> d, pr |-> FALSE]
    /\ changes_to_push = FALSE
    /\ calls = <<>>
    /\ obs = NewObs
    /\ hist = <<>>

Fail == pc' = "failed"

(* get_repo: clone (only the remote's default branch becomes a local head), *)
(* fetch, then check out the update branch if it is a local head and       *)
(* pull --rebase it (nothing to rebase right after the clone), else create *)
(* it at HEAD.                                                             *)
get_repo ==
    /\ pc = "start"
    /\ \E cloned \in BOOLEAN :
         IF ~cloned
         THEN /\ Fail
              /\ UNCHANGED <<heads, origin, json, image_dir, staged, obs>>
         ELSE LET head == RemoteRef(remote.default)
                  cloned_heads == [b \in {remote.default} |-> head]
              IN /\ pc' = "cloned"
                 /\ origin' = [main |-> remote.main, branch |-> remote.branch]
                 /\ heads' = IF BranchName \in DOMAIN cloned_heads
                             THEN cloned_heads
                             ELSE [b \in {remote.default, BranchName} |-> head]
                 /\ obs' = [obs EXCEPT !.new_branch = BranchName \notin DOMAIN cloned_heads]
                 /\ json' = commits[head].json
                 /\ image_dir' = commits[head].images
                 /\ staged' = {}
    /\ UNCHANGED <<run, records, member, result, data_bag, remote, commits,
                   changes_to_push, calls, hist>>

\* new_data_bag = self.create_databag(); read_gsheet may fail
create_databag_step ==
    /\ pc = "cloned"
    /\ \E sheet_read \in BOOLEAN :
         IF ~sheet_read
         THEN /\ Fail
              /\ UNCHANGED <<data_bag, image_dir, staged>>
         ELSE \E o \in create_databag(records, image_dir, staged) :
                 /\ pc' = IF o.raised THEN "failed" ELSE "built"
                 /\ data_bag' = o.bag
                 /\ image_dir' = o.dir
                 /\ staged' = o.staged
    /\ UNCHANGED <<run, records, member, result, json, heads, origin, remote,
                   commits, changes_to_push, calls, obs, hist>>

save_json ==
    /\ pc = "built"
    /\ json' = model_dump_json(data_bag)
    /\ obs' = [obs EXCEPT !.clean =
                 Tree(model_dump_json(data_bag), image_dir) = commits[heads[BranchName]]]
    /\ pc' = "saved"
    /\ UNCHANGED <<run, records, member, image_dir, staged, result, data_bag,
                   heads, origin, remote, commits, changes_to_push, calls, hist>>

(* apply_changes: commit when dirty, then compare the update branch with   *)
(* origin/main and push when they differ; a failing push re-raises.        *)
apply_changes ==
    /\ pc = "saved"
    /\ LET dirty == is_dirty(Tree(json, image_dir), commits[heads[BranchName]])
           local == IF dirty THEN Len(commits) + 1 ELSE heads[BranchName]
           to_push == local # origin.main
       IN /\ commits' = IF dirty THEN Append(commits, Tree(json, image_dir)) ELSE commits
          /\ heads' = [heads EXCEPT ![BranchName] = local]
          /\ staged' = IF dirty THEN {} ELSE staged
          /\ changes_to_push' = to_push
          /\ IF to_push
             THEN \E push_ok \in BOOLEAN :
                    IF push_ok
                    THEN /\ remote' = [remote EXCEPT !.branch = local]
                         /\ origin' = [origin EXCEPT !.branch = local]
                         /\ obs' = [obs EXCEPT !.committed = dirty, !.pushed = TRUE]
                         /\ pc' = "applied"
                    ELSE /\ UNCHANGED <<remote, origin>>
                         /\ obs' = [obs EXCEPT !.committed = dirty]
                         /\ Fail
             ELSE /\ UNCHANGED <<remote, origin>>
                  /\ obs' = [obs EXCEPT !.committed = dirty]
                  /\ pc' = "applied"
    /\ UNCHANGED <<run, records, member, image_dir, result, data_bag, json,
                   calls, hist>>

Call(op, status) == [op |-> op, status |-> status, open |-> remote.pr]

(* pull_request.  Statuses: "200"/"201" success, "4xx" any other response, *)
(* "exc" a requests exception.  The host answers a list request truthfully *)
(* and refuses to create a second open pull request for the same head.     *)
pull_request ==
    /\ pc = "applied"
    /\ IF ~changes_to_push
       THEN /\ pc' = "done"
            /\ UNCHANGED <<calls, obs, remote>>
       ELSE \E list \in {"200", "4xx", "exc"},
               create \in {"201", "4xx", "exc"},
               reviewers \in {"201", "4xx", "exc"} :
              IF list = "exc"
              THEN /\ calls' = <<Call("list", list)>>
                   /\ Fail
                   /\ UNCHANGED <<obs, remote>>
              ELSE IF list = "200" /\ remote.pr
              THEN /\ calls' = <<Call("list", list)>>
                   /\ obs' = [obs EXCEPT !.found = TRUE]
                   /\ pc' = "done"
                   /\ UNCHANGED remote
              ELSE IF create = "201" /\ ~remote.pr
              THEN /\ calls' = <<Call("list", list), Call("create", create),
                                 [op |-> "reviewers", status |-> reviewers, open |-> TRUE]>>
                   /\ remote' = [remote EXCEPT !.pr = TRUE]
                   /\ obs' = [obs EXCEPT !.created = TRUE]
                   /\ pc' = IF reviewers = "exc" THEN "failed" ELSE "done"
              ELSE /\ create # "201"
                   /\ calls' = <<Call("list", list), Call("create", create)>>
                   /\ UNCHANGED <<obs, remote>>
                   \* log.info("Failed to create pull request:", response.status_code)
                   /\ pc' = IF create = "exc" \/ LogRaises(0, 1) THEN "failed" ELSE "done"
    /\ UNCHANGED <<run, records, member, image_dir, staged, result, data_bag, json,
                   heads, origin, commits, changes_to_push, hist>>

RunSummary == [pc |-> pc, json |-> json, obs |-> obs, changes_to_push |-> changes_to_push]

\* the next scheduled execution: a new process, a new UpdateTeamPage()
next_run ==
    /\ pc \in {"done", "failed"}
    /\ run < MaxRuns
    /\ hist' = Append(hist, RunSummary)
    /\ run' = run + 1
    /\ pc' = "start"
    /\ changes_to_push' = FALSE
    /\ calls' = <<>>
    /\ obs' = NewObs
    /\ data_bag' = None
    /\ UNCHANGED <<records, member, image_dir, staged, result, json, heads, origin,
                   remote, commits>>

\* a maintainer merges the open pull request between two runs, by
\* fast-forward or with a merge commit
merge_pull_request ==
    /\ pc \in {"done", "failed"}
    /\ remote.pr
    /\ \E ff \in BOOLEAN :
         IF ff
         THEN /\ remote' = [remote EXCEPT !.main = remote.branch, !.pr = FALSE]
              /\ UNCHANGED commits
         ELSE /\ commits' = Append(commits, commits[remote.branch])
              /\ remote' = [remote EXCEPT !.main = Len(commits) + 1, !.pr = FALSE]
    /\ UNCHANGED <<pc, run, records, member, image_dir, staged, result, data_bag, json,
                   heads, origin, changes_to_push, calls, obs, hist>>

Next ==
    \/ get_repo
    \/ create_databag_step
    \/ save_json
    \/ apply_changes
    \/ pull_request
    \/ next_run
    \/ merge_pull_request

Spec == Init /\ [][Next]_vars

\* the same runs against a repository whose default branch is main
InitMain == Init /\ remote.default = "main"

SpecMain == InitMain /\ [][Next]_vars

----------------------------------------------------------------------------
(* Properties of the publish step (checked under Spec)                     *)

\* C1: a second run on the same sheet, after a first run that ended with a
\* pull request (still open or merged since), serializes the same team.json
\* as the first run and pushes nothing.
C1_SecondRunIdempotent ==
    (run = 2 /\ pc = "done" /\ hist[1].pc = "done"
        /\ (hist[1].obs.created \/ hist[1].obs.found))
    => (json = hist[1].json /\ ~obs.pushed /\ ~changes_to_push)

C3_NoCreateWhileOpen ==
    \A i \in 1..Len(calls) : calls[i].op = "create" => ~calls[i].open

Unchanged == pc = "done" /\ ~obs.committed /\ ~obs.pushed /\ calls = <<>>
PRExists == pc = "done" /\ obs.pushed /\ obs.found
PRCreated == pc = "done" /\ obs.pushed /\ obs.created
Failed == pc = "failed"

\* C4: a finished run is in exactly one of Unchanged, PRExists, PRCreated
\* and Failed, so it never ends normally pushed without a found or created
\* pull request; and no pull-request API call precedes the run's push.
C4_RunStateMachine ==
    /\ calls # <<>> => obs.pushed
    /\ pc \in {"done", "failed"}
         => Cardinality({t \in {"Unchanged", "PRExists", "PRCreated", "Failed"} :
                            \/ t = "Unchanged" /\ Unchanged
                            \/ t = "PRExists" /\ PRExists
                            \/ t = "PRCreated" /\ PRCreated
                            \/ t = "Failed" /\ Failed}) = 1

\* C4 witness: a run that pushed, found no pull request and created one
C4_RunCreatedPullRequest == PRCreated /\ obs.committed /\ Len(calls) = 3

\* C9: once the push succeeded, a non-2xx answer of the list, create or
\* add-reviewers request (no request raising) never fails the run.
C9_ApiFailureNeverFailsRun ==
    (/\ obs.pushed
     /\ \E i \in 1..Len(calls) : calls[i].status = "4xx"
     /\ \A i \in 1..Len(calls) : calls[i].status # "exc")
    => pc # "failed"

----------------------------------------------------------------------------
(* Properties of the roster build (checked under SpecBag and SpecImg)      *)

Included(record) == casefold(record.ignore) = yes
MissingName(record) == "name" \notin DOMAIN record \/ record.name = empty
EffectiveCommittee(record) ==
    IF "committee" \notin DOMAIN record \/ record.committee = ""
    THEN "other" ELSE record.committee

Range(seq) == {seq[i] : i \in 1..Len(seq)}

\* the committee names of the rows, in the order of their first occurrence
RECURSIVE FirstSeen(_, _)
FirstSeen(recs, k) ==
    IF k = 0 THEN <<>>
    ELSE LET prev == FirstSeen(recs, k - 1)
             c == Get(recs[k], "committee", "")
         IN IF c = "" \/ c \in Range(prev) THEN prev ELSE Append(prev, c)

ExpectedOrder ==
    LET seen == FirstSeen(records, Len(records))
        present(n) == n \in Range(seen)
        unlisted(n) == ~InSortOrder(n)
    IN SelectSeq(sort_order, present) \o SelectSeq(seen, unlisted)

DocNames == [i \in 1..Len(data_bag.types) |-> data_bag.types[i].name]

\* C5: the committees of the document are those of sort_order, in that
\* order, followed by the others in the order the rows first name them.
C5_CommitteeOrder ==
    (/\ pc = "bag_done"
     /\ \A i \in 1..Len(records) : ~MissingName(records[i]))
    => DocNames = ExpectedOrder

\* <<name, role>> of the members the document lists under committee c
DocMembers(c) ==
    IF \E i \in 1..Len(data_bag.types) : data_bag.types[i].name = c
    THEN LET ms == data_bag.types[CHOOSE i \in 1..Len(data_bag.types) :
                                      data_bag.types[i].name = c].members
         IN [j \in 1..Len(ms) |-> <<ms[j].name, ms[j].role>>]
    ELSE <<>>

\* <<name, role>> the included rows of committee c call for, in row order
RECURSIVE ExpectedMembers(_, _, _)
ExpectedMembers(recs, k, c) ==
    IF k = 0 THEN <<>>
    ELSE IF Included(recs[k]) /\ EffectiveCommittee(recs[k]) = c
    THEN Append(ExpectedMembers(recs, k - 1, c),
                <<recs[k].name, IF recs[k].chair = yes THEN Chair ELSE empty>>)
    ELSE ExpectedMembers(recs, k - 1, c)

\* C6: every included, valid row yields exactly one member, in the row's
\* committee or in "other" when the row names none, in row order, with role
\* Chair exactly when the chair flag is yes; other rows yield none.
C6_OneMemberPerIncludedRow ==
    (/\ pc = "bag_done"
     /\ \A i \in 1..Len(records) : ~MissingName(records[i]))
    => /\ ~result.raised
       /\ \A c \in CommitteeCells \cup {"other"} :
             DocMembers(c) = ExpectedMembers(records, Len(records), c)

AllMembers ==
    UNION {Range(data_bag.types[i].members) : i \in 1..Len(data_bag.types)}

\* C7: a row without a name (no such field, or an empty one) yields no
\* member, raises nothing out of the loop, and the rows after it are
\* still processed.
C7_MissingNameSkipped ==
    (/\ pc = "bag_done"
     /\ \E i \in 1..Len(records) : MissingName(records[i]))
    => /\ ~result.raised
       /\ \A m \in AllMembers : m.name # empty
       /\ \A i, j \in 1..Len(records) :
             (/\ i < j
              /\ MissingName(records[i])
              /\ ~MissingName(records[j])
              /\ Included(records[j])
              /\ Get(records[j], "committee", "") # "")
             => <<records[j].name, IF records[j].chair = yes THEN Chair ELSE empty>>
                   \in Range(DocMembers(records[j].committee))

\* C10: every file create_databag added to the image directory is the
\* image_name of a member of the returned document (stated for sheets whose
\* rows all have a name and name a committee, so that no row is skipped).
C10_CreatedImagesAreReferenced ==
    (/\ pc = "bag_done"
     /\ \A i \in 1..Len(records) :
           ~MissingName(records[i]) /\ Get(records[i], "committee", "") # "")
    => \A f \in image_dir \ result.dir : \E m \in AllMembers : m.image_name = f

\* C8: when a file of the image directory has the member's normalized key in
\* its name, download_member_image makes no network request and returns the
\* name of such a file of the directory.
C8_SkipReturnsExistingFile ==
    (/\ pc = "img_done"
     /\ member.image_url # None
     /\ \E f \in result.dir : Contains(normalized_member_name(member.name), f))
    => /\ ~result.net
       /\ result.ret \in result.dir
       /\ Contains(normalized_member_name(member.name), result.ret)

====
